---------------------------- MODULE Spec2Model ----------------------------
(***************************************************************************)
(* Model of loadrunner-tests/Next_2025-11-27T10-30-00-000Z/Next_Journey.c  *)
(* (the LoadRunner script of the BizObs "Next" retail journey).            *)
(*                                                                         *)
(* Each virtual user (Vuser) runs Action() once: an initialization         *)
(* transaction, six calls of execute_journey_step and a closing summary    *)
(* transaction.  The script's file-scope buffers, the Vuser's list of      *)
(* headers registered for its next request, its open transactions and the *)
(* log of what it sent are the state.                                      *)
(*                                                                         *)
(* What the LoadRunner library does is taken from its documented contract: *)
(*  - web_add_header registers a header for the NEXT request only;         *)
(*  - web_custom_request replaces {name} in its attributes by the value of *)
(*    the LoadRunner parameter name and leaves the text as it stands when  *)
(*    no such parameter was saved;                                         *)
(*  - lr_think_time takes seconds;                                         *)
(*  - a library call returns to the script (the run-time setting "continue *)
(*    on error"), and the script reads the status the call returns or      *)
(*    drops it.                                                            *)
(* Two points the script leaves to the run time are choices of Init:       *)
(* whether a second web_add_header of a name replaces the first or is sent *)
(* beside it (header_policy), and whether Vusers run as threads of one     *)
(* process, sharing the file-scope buffers, or as processes (vuser_mode).  *)
(***************************************************************************)
EXTENDS Integers, Sequences, FiniteSets, TLC

\* ------------------------------------------------------------------ bounds
\* Vuser ids are 1..NumVUsers.
NumVUsers == 2
\* rand() returns q * 100 + r for q in 0..MaxRandQuot, r in RandResidues.
MaxRandQuot == 1

VUsers == 1..NumVUsers
RandResidues == {0, 4, 5, 99}
RandValues == {q * 100 + r : q \in 0..MaxRandQuot, r \in RandResidues}

\* ------------------------------------------------------- script globals
LSN == "BizObs_Next_Retail_Journey"
LTN == "Next_Performance_Test_20251127"
company_name == "Next"
base_url == "http://localhost:8080"

\* The five arguments of each execute_journey_step call of Action, in order.
Steps ==
  << [step_name |-> "ProductDiscovery", endpoint |-> "/api/process", method |-> "POST",
      body |-> "{\"companyName\":\"Next\",\"stepName\":\"ProductDiscovery\",\"substeps\":[{\"substepName\":\"Browse Categories\",\"duration\":5},{\"substepName\":\"Search Products\",\"duration\":8}]}",
      duration |-> 13],
     [step_name |-> "CartManagement", endpoint |-> "/api/process", method |-> "POST",
      body |-> "{\"companyName\":\"Next\",\"stepName\":\"CartManagement\",\"substeps\":[{\"substepName\":\"Add to Cart\",\"duration\":3},{\"substepName\":\"Update Quantities\",\"duration\":5}]}",
      duration |-> 8],
     [step_name |-> "CheckoutProcess", endpoint |-> "/api/process", method |-> "POST",
      body |-> "{\"companyName\":\"Next\",\"stepName\":\"CheckoutProcess\",\"substeps\":[{\"substepName\":\"Payment Details\",\"duration\":12},{\"substepName\":\"Delivery Options\",\"duration\":7}]}",
      duration |-> 19],
     [step_name |-> "OrderConfirmation", endpoint |-> "/api/process", method |-> "POST",
      body |-> "{\"companyName\":\"Next\",\"stepName\":\"OrderConfirmation\",\"substeps\":[{\"substepName\":\"Process Payment\",\"duration\":8},{\"substepName\":\"Generate Receipt\",\"duration\":4}]}",
      duration |-> 12],
     [step_name |-> "FulfillmentProcessing", endpoint |-> "/api/process", method |-> "POST",
      body |-> "{\"companyName\":\"Next\",\"stepName\":\"FulfillmentProcessing\",\"substeps\":[{\"substepName\":\"Inventory Check\",\"duration\":6},{\"substepName\":\"Prepare Order\",\"duration\":15}]}",
      duration |-> 21],
     [step_name |-> "DeliveryTracking", endpoint |-> "/api/process", method |-> "POST",
      body |-> "{\"companyName\":\"Next\",\"stepName\":\"DeliveryTracking\",\"substeps\":[{\"substepName\":\"Generate Tracking\",\"duration\":3},{\"substepName\":\"Send Notifications\",\"duration\":5}]}",
      duration |-> 8] >>

VARIABLES
  active,           \* the Vusers that run Action
  vuser_mode,       \* "thread": Vusers share the file-scope buffers; "process": each has its own
  header_policy,    \* "replace" | "append": a second web_add_header of the same name
  error_simulation, \* int error_simulation
  dt_header,        \* char dt_header[1024], per address space
  pc,               \* each Vuser's position in Action / execute_journey_step
  step,             \* the execute_journey_step call the Vuser is in (index into Steps)
  transaction_name, \* local of execute_journey_step
  full_url,         \* local of execute_journey_step
  request_body,     \* local of Action
  pending,          \* headers registered with web_add_header for the next request
  requests,         \* the requests sent, in order: name, URL, method and body
  request_headers,  \* the headers the latest request carried
  last_rc,          \* what web_custom_request returned in the current call: <<>> before it
  think_log,        \* the amounts handed to lr_think_time, in order
  rand_value,       \* what rand() returned in the condition of line 140: <<>> when not called
  tx_open,          \* names of the transactions started and not ended
  tx_log            \* transaction starts and ends and error messages, in order

vars == << active, vuser_mode, header_policy, error_simulation, dt_header, pc, step,
           transaction_name, full_url, request_body, pending, requests, request_headers,
           last_rc, think_log, rand_value, tx_open, tx_log >>

\* ------------------------------------------------------- library helpers
lr_get_vuser_id(v) == v

lr_get_session_id(v) == "session-" \o ToString(v)

\* The buffer cell Vuser v's dt_header names.
Buf(v) == IF vuser_mode = "thread" THEN 0 ELSE v

\* sprintf(dt_header, "VU: %d; SI: %s; TSN: %s; LSN: %s; LTN: %s", ...)
FormatDtHeader(vu, si, tsn) ==
  "VU: " \o ToString(vu) \o "; SI: " \o si \o "; TSN: " \o tsn
    \o "; LSN: " \o LSN \o "; LTN: " \o LTN

\* sprintf(transaction_name, "Step_%s", step_name)
FormatTransactionName(step_name) == "Step_" \o step_name

\* sprintf(full_url, "%s%s", base_url, endpoint)
FormatFullUrl(endpoint) == base_url \o endpoint

\* sprintf(request_body, "{\"eventType\": ...}", LTN, LSN, vuser id, session id)
FormatSummaryBody(vu, si) ==
  "{\"eventType\": \"JOURNEY_COMPLETE\",\"companyName\": \"Next\",\"testName\": \""
    \o LTN \o "\",\"scriptName\": \"" \o LSN \o "\",\"vuserId\": " \o ToString(vu)
    \o ",\"sessionId\": \"" \o si
    \o "\",\"timestamp\": \"2025-11-27T10:30:00.000Z\",\"totalSteps\": 6}"

\* The LoadRunner parameters the script has saved (lr_save_string and the like):
\* it calls none of them, so the table is empty.
LrParams == [p \in {} |-> ""]

\* Parameter substitution of one {name} of a request attribute.
LrEvalParam(name) ==
  IF name \in DOMAIN LrParams THEN LrParams[name] ELSE "{" \o name \o "}"

\* web_add_header(name, value) on the list p of headers awaiting the next request.
web_add_header(p, name, value) ==
  LET h == [name |-> name, value |-> value]
  IN  IF header_policy = "replace"
      THEN Append(SelectSeq(p, LAMBDA x : x.name # name), h)
      ELSE Append(p, h)

\* A variant of ErrorInjected that forgets the reduction modulo 100.
ErrorInjectedNoModulo(r) == r < 5

\* The condition of line 140 on the value rand() returned.
ErrorInjected(r) == (r % 100) < 5


\* lr_start_transaction(name): the log entry, and the open set after it.
lr_start_transaction_log(log, name) ==
  Append(log, [op |-> "start", name |-> name, status |-> "-"])

lr_start_transaction_open(open, name) == open \cup {name}

\* lr_end_transaction(name, status): ends the transaction when it is open; the
\* library reports an error for a name that is not.
lr_end_transaction_log(log, open, name, status) ==
  Append(log, [op |-> IF name \in open THEN "end" ELSE "end_unopened",
               name |-> name, status |-> status])

lr_end_transaction_open(open, name) == open \ {name}

\* lr_error_message("Simulated error in step: %s", step_name)
lr_error_message_log(log, step_name) ==
  Append(log, [op |-> "error_message", name |-> step_name, status |-> "LR_FAIL"])

\* A variant of AfterStep that leaves out the call after a failed step.
AfterStepSkipOnFail(i, status) ==
  LET n == IF status = "LR_FAIL" THEN i + 2 ELSE i + 1
  IN  IF n <= Len(Steps) THEN [pc |-> "step_begin", step |-> n]
                         ELSE [pc |-> "final", step |-> i]

\* A variant of AfterStep that returns from Action when a step failed.
AfterStepAbortOnFail(i, status) ==
  IF status = "LR_FAIL" THEN [pc |-> "done", step |-> i]
  ELSE IF i < Len(Steps) THEN [pc |-> "step_begin", step |-> i + 1]
  ELSE [pc |-> "final", step |-> i]

\* Where Action goes on after call i of execute_journey_step returned status:
\* Action drops the value returned and goes to the next statement.
AfterStep(i, status) ==
  IF i < Len(Steps) THEN [pc |-> "step_begin", step |-> i + 1]
                    ELSE [pc |-> "final", step |-> i]

\* ------------------------------------------------------------ the state
Fresh(vs, sims) ==
  /\ active = vs
  /\ vuser_mode \in {"process", "thread"}
  /\ header_policy \in {"replace", "append"}
  /\ error_simulation \in sims
  /\ dt_header = [b \in 0..NumVUsers |-> ""]
  /\ pc = [v \in VUsers |-> IF v \in vs THEN "init" ELSE "off"]
  /\ step = [v \in VUsers |-> 0]
  /\ transaction_name = [v \in VUsers |-> ""]
  /\ full_url = [v \in VUsers |-> ""]
  /\ request_body = [v \in VUsers |-> ""]
  /\ pending = [v \in VUsers |-> << >>]
  /\ requests = [v \in VUsers |-> << >>]
  /\ request_headers = [v \in VUsers |-> << >>]
  /\ last_rc = [v \in VUsers |-> << >>]
  /\ think_log = [v \in VUsers |-> << >>]
  /\ rand_value = [v \in VUsers |-> << >>]
  /\ tx_open = [v \in VUsers |-> {}]
  /\ tx_log = [v \in VUsers |-> << >>]

\* One Vuser runs the script alone, error simulation on (as shipped) or off.
Init == \E v \in VUsers : Fresh({v}, {0, 1})

\* Every Vuser runs the script at once.  What the Vusers share is dt_header,
\* which no statement of the error simulation reads or writes: it is off
\* here, which keeps every interleaving of the Vusers within reach.
ConcInit == Fresh(VUsers, {0})

\* ---------------------------------------------------------- the actions
\* Action, lines 38-41: start Journey_Initialization, write dt_header.
JourneyInit(v) ==
  /\ pc[v] = "init"
  /\ tx_open' = [tx_open EXCEPT ![v] = lr_start_transaction_open(@, "Journey_Initialization")]
  /\ tx_log' = [tx_log EXCEPT ![v] = lr_start_transaction_log(@, "Journey_Initialization")]
  /\ dt_header' = [dt_header EXCEPT ![Buf(v)] =
        FormatDtHeader(lr_get_vuser_id(v), lr_get_session_id(v), "Journey_Start")]
  /\ pc' = [pc EXCEPT ![v] = "init_headers"]
  /\ UNCHANGED << active, vuser_mode, header_policy, error_simulation, step,
                  transaction_name, full_url, request_body, pending, requests, request_headers,
                  last_rc, think_log, rand_value >>

\* Action, lines 43-46: register the two headers, end Journey_Initialization.
JourneyInitHeaders(v) ==
  /\ pc[v] = "init_headers"
  /\ pending' = [pending EXCEPT ![v] =
        web_add_header(web_add_header(@, "X-dynaTrace", dt_header[Buf(v)]),
                       "X-LoadRunner-Company", company_name)]
  /\ tx_log' = [tx_log EXCEPT ![v] =
        lr_end_transaction_log(@, tx_open[v], "Journey_Initialization", "LR_PASS")]
  /\ tx_open' = [tx_open EXCEPT ![v] = lr_end_transaction_open(@, "Journey_Initialization")]
  /\ pc' = [pc EXCEPT ![v] = "step_begin"]
  /\ step' = [step EXCEPT ![v] = 1]
  /\ UNCHANGED << active, vuser_mode, header_policy, error_simulation, dt_header,
                  transaction_name, full_url, request_body, requests, request_headers, last_rc,
                  think_log, rand_value >>

\* execute_journey_step, lines 117-121: name and start the transaction, write
\* dt_header.  The locals and temporaries of the call are fresh.
StepBegin(v) ==
  /\ pc[v] = "step_begin"
  /\ LET s == Steps[step[v]]
         tn == FormatTransactionName(s.step_name)
     IN  /\ transaction_name' = [transaction_name EXCEPT ![v] = tn]
         /\ tx_open' = [tx_open EXCEPT ![v] = lr_start_transaction_open(@, tn)]
         /\ tx_log' = [tx_log EXCEPT ![v] = lr_start_transaction_log(@, tn)]
         /\ dt_header' = [dt_header EXCEPT ![Buf(v)] =
               FormatDtHeader(lr_get_vuser_id(v), lr_get_session_id(v), s.step_name)]
  /\ full_url' = [full_url EXCEPT ![v] = ""]
  /\ rand_value' = [rand_value EXCEPT ![v] = << >>]
  /\ last_rc' = [last_rc EXCEPT ![v] = << >>]
  /\ pc' = [pc EXCEPT ![v] = "step_send"]
  /\ UNCHANGED << active, vuser_mode, header_policy, error_simulation, step,
                  request_body, pending, requests, request_headers, think_log >>

\* execute_journey_step, lines 123-136: register the two headers, compute
\* full_url, send the request when the method is POST.  The request takes the
\* registered headers with it; its status is returned and not stored.
StepSend(v) ==
  /\ pc[v] = "step_send"
  /\ LET s == Steps[step[v]]
         hs == web_add_header(web_add_header(pending[v], "X-dynaTrace", dt_header[Buf(v)]),
                              "X-LoadRunner-Step", s.step_name)
     IN  /\ full_url' = [full_url EXCEPT ![v] = FormatFullUrl(s.endpoint)]
         /\ IF s.method = "POST"
            THEN /\ requests' = [requests EXCEPT ![v] = Append(@,
                       [name |-> s.step_name,
                        url |-> LrEvalParam("full_url"),
                        method |-> "POST",
                        body |-> LrEvalParam("body")])]
                 /\ request_headers' = [request_headers EXCEPT ![v] = hs]
                 /\ pending' = [pending EXCEPT ![v] = << >>]
                 /\ \E rc \in {"LR_PASS", "LR_FAIL"} :
                      last_rc' = [last_rc EXCEPT ![v] = << rc >>]
            ELSE /\ pending' = [pending EXCEPT ![v] = hs]
                 /\ UNCHANGED << requests, request_headers, last_rc >>
  /\ pc' = [pc EXCEPT ![v] = "step_think"]
  /\ UNCHANGED << active, vuser_mode, header_policy, error_simulation, dt_header,
                  step, transaction_name, request_body, think_log, rand_value,
                  tx_open, tx_log >>

\* execute_journey_step, line 138: lr_think_time(duration * 1000).
StepThink(v) ==
  /\ pc[v] = "step_think"
  /\ think_log' = [think_log EXCEPT ![v] = Append(@, Steps[step[v]].duration * 1000)]
  /\ pc' = [pc EXCEPT ![v] = "step_cond"]
  /\ UNCHANGED << active, vuser_mode, header_policy, error_simulation, dt_header,
                  step, transaction_name, full_url, request_body, pending, requests, request_headers,
                  last_rc, rand_value, tx_open, tx_log >>

\* execute_journey_step, line 140: error_simulation && (rand() % 100) < 5.
\* rand() is called only when error_simulation is not 0.
StepCond(v) ==
  /\ pc[v] = "step_cond"
  /\ IF error_simulation # 0
     THEN \E r \in RandValues : rand_value' = [rand_value EXCEPT ![v] = << r >>]
     ELSE rand_value' = [rand_value EXCEPT ![v] = << >>]
  /\ pc' = [pc EXCEPT ![v] = "step_end"]
  /\ UNCHANGED << active, vuser_mode, header_policy, error_simulation, dt_header,
                  step, transaction_name, full_url, request_body, pending, requests, request_headers,
                  last_rc, think_log, tx_open, tx_log >>

\* Whether the condition of line 140 held for Vuser v.
SimulatedError(v) ==
  /\ error_simulation # 0
  /\ rand_value[v] # << >>
  /\ ErrorInjected(rand_value[v][1])

\* A variant of EndTransactionName that ends the failed step under its bare
\* step name.
EndTransactionNameBareOnFail(v, status) ==
  IF status = "LR_FAIL" THEN Steps[step[v]].step_name ELSE transaction_name[v]

\* The name handed to lr_end_transaction on the path that ends with status.
EndTransactionName(v, status) == transaction_name[v]

\* execute_journey_step, lines 141-147: end the transaction LR_FAIL with an
\* error message, or LR_PASS, and return that status to Action.
StepEnd(v) ==
  /\ pc[v] = "step_end"
  /\ LET status == IF SimulatedError(v) THEN "LR_FAIL" ELSE "LR_PASS"
         tn == EndTransactionName(v, status)
         ended == lr_end_transaction_log(tx_log[v], tx_open[v], tn, status)
         next == AfterStep(step[v], status)
     IN  /\ tx_log' = [tx_log EXCEPT ![v] =
               IF status = "LR_FAIL"
               THEN lr_error_message_log(ended, Steps[step[v]].step_name)
               ELSE ended]
         /\ tx_open' = [tx_open EXCEPT ![v] = lr_end_transaction_open(@, tn)]
         /\ pc' = [pc EXCEPT ![v] = next.pc]
         /\ step' = [step EXCEPT ![v] = next.step]
  /\ UNCHANGED << active, vuser_mode, header_policy, error_simulation, dt_header,
                  transaction_name, full_url, request_body, pending, requests, request_headers,
                  last_rc, think_log, rand_value >>

\* Action, lines 79-82: start Journey_Complete, write dt_header.  The
\* temporaries of the last execute_journey_step call are gone.
JourneyComplete(v) ==
  /\ pc[v] = "final"
  /\ tx_open' = [tx_open EXCEPT ![v] = lr_start_transaction_open(@, "Journey_Complete")]
  /\ tx_log' = [tx_log EXCEPT ![v] = lr_start_transaction_log(@, "Journey_Complete")]
  /\ dt_header' = [dt_header EXCEPT ![Buf(v)] =
        FormatDtHeader(lr_get_vuser_id(v), lr_get_session_id(v), "Journey_Complete")]
  /\ rand_value' = [rand_value EXCEPT ![v] = << >>]
  /\ last_rc' = [last_rc EXCEPT ![v] = << >>]
  /\ pc' = [pc EXCEPT ![v] = "final_send"]
  /\ UNCHANGED << active, vuser_mode, header_policy, error_simulation, step,
                  transaction_name, full_url, request_body, pending, requests, request_headers,
                  think_log >>

\* Action, lines 83-105: register the header, build request_body, send the
\* summary request.
JourneySummary(v) ==
  /\ pc[v] = "final_send"
  /\ request_body' = [request_body EXCEPT ![v] =
        FormatSummaryBody(lr_get_vuser_id(v), lr_get_session_id(v))]
  /\ requests' = [requests EXCEPT ![v] = Append(@,
        [name |-> "Journey_Summary",
         url |-> LrEvalParam("base_url") \o "/api/journey-complete",
         method |-> "POST",
         body |-> LrEvalParam("request_body")])]
  /\ request_headers' = [request_headers EXCEPT ![v] =
        web_add_header(pending[v], "X-dynaTrace", dt_header[Buf(v)])]
  /\ pending' = [pending EXCEPT ![v] = << >>]
  /\ \E rc \in {"LR_PASS", "LR_FAIL"} : last_rc' = [last_rc EXCEPT ![v] = << rc >>]
  /\ pc' = [pc EXCEPT ![v] = "final_end"]
  /\ UNCHANGED << active, vuser_mode, header_policy, error_simulation, dt_header,
                  step, transaction_name, full_url, think_log, rand_value,
                  tx_open, tx_log >>

\* Action, lines 107-109: end Journey_Complete, return 0.
JourneyEnd(v) ==
  /\ pc[v] = "final_end"
  /\ tx_log' = [tx_log EXCEPT ![v] =
        lr_end_transaction_log(@, tx_open[v], "Journey_Complete", "LR_PASS")]
  /\ tx_open' = [tx_open EXCEPT ![v] = lr_end_transaction_open(@, "Journey_Complete")]
  /\ pc' = [pc EXCEPT ![v] = "done"]
  /\ UNCHANGED << active, vuser_mode, header_policy, error_simulation, dt_header,
                  step, transaction_name, full_url, request_body, pending, requests, request_headers,
                  last_rc, think_log, rand_value >>

Next ==
  \E v \in VUsers :
    \/ JourneyInit(v)
    \/ JourneyInitHeaders(v)
    \/ StepBegin(v)
    \/ StepSend(v)
    \/ StepThink(v)
    \/ StepCond(v)
    \/ StepEnd(v)
    \/ JourneyComplete(v)
    \/ JourneySummary(v)
    \/ JourneyEnd(v)

\* One Vuser alone.
Spec == Init /\ [][Next]_vars

\* One Vuser alone; the script only waits on calls that return, so a Vuser that
\* can take a step takes it.
FairSpec == Init /\ [][Next]_vars /\ WF_vars(Next)

\* All Vusers at once, their statements interleaved.
ConcSpec == ConcInit /\ [][Next]_vars


\* ---------------------------------------------- views of the state
\* The step results of Vuser v: the ended Step_ transactions, in order.
StepTransactionNames ==
  << "Step_ProductDiscovery", "Step_CartManagement", "Step_CheckoutProcess",
     "Step_OrderConfirmation", "Step_FulfillmentProcessing", "Step_DeliveryTracking" >>

IsStepEnd(e) ==
  /\ e.op = "end"
  /\ \E i \in DOMAIN StepTransactionNames : e.name = StepTransactionNames[i]

Results(v) == SelectSeq(tx_log[v], IsStepEnd)

ResultNames(v) == [i \in 1..Len(Results(v)) |-> Results(v)[i].name]

\* The result of the execute_journey_step call that returned last; read where
\* the temporaries of that call are still in the state.
Returned(v) == pc[v] \in {"step_begin", "final"} /\ Results(v) # << >>

LastResult(v) == Results(v)[Len(Results(v))]

SummaryCount(v) ==
  Cardinality({i \in DOMAIN requests[v] : requests[v][i].name = "Journey_Summary"})

\* The values of the headers called name that the latest request of v carried.
HeaderValues(v, name) ==
  {request_headers[v][i].value :
     i \in {j \in DOMAIN request_headers[v] : request_headers[v][j].name = name}}

\* The latest request of Vuser v, and the step name its correlation header
\* is to carry.
LatestRequest(v) == requests[v][Len(requests[v])]

LatestTsn(v) ==
  IF LatestRequest(v).name = "Journey_Summary" THEN "Journey_Complete"
  ELSE LatestRequest(v).name

\* The transaction starts and ends of v, error messages left out.
TxEvents(v) == SelectSeq(tx_log[v], LAMBDA e : e.op # "error_message")

RECURSIVE SumSeq(_)
SumSeq(q) == IF q = << >> THEN 0 ELSE q[1] + SumSeq(Tail(q))

\* --------------------------------------------------------- properties
\* C1: in every run and for every combination of step outcomes, the step
\* results recorded so far are the first results of the defined order
\* ProductDiscovery, CartManagement, CheckoutProcess, OrderConfirmation,
\* FulfillmentProcessing, DeliveryTracking, one per step the run has been
\* through, and a run that has left the steps behind has recorded exactly
\* these six: no step is skipped, repeated or reordered.
C1_ResultsInDefinedOrder ==
  \A v \in active :
    /\ Len(Results(v)) <= 6
    /\ ResultNames(v) = SubSeq(StepTransactionNames, 1, Len(Results(v)))
    /\ pc[v] \in {"step_begin", "step_send", "step_think", "step_cond", "step_end"}
         => Len(Results(v)) = step[v] - 1
    /\ pc[v] \in {"final", "final_send", "final_end", "done"}
         => ResultNames(v) = StepTransactionNames

\* A run that ended with six results, failed and passed ones among them.
C1_Witness ==
  \E v \in active :
    /\ pc[v] = "done"
    /\ Len(Results(v)) = 6
    /\ \E i, j \in 1..6 : /\ Results(v)[i].status = "LR_FAIL"
                          /\ Results(v)[j].status = "LR_PASS"

\* C2: a failed step never aborts the journey.  The summary request is sent
\* at most once, only when all six step results are recorded, a run that
\* returned from Action has sent it exactly once, and every run returns
\* from Action.
C2_SummaryExactlyOnceAtEnd ==
  /\ [](\A v \in active :
          /\ SummaryCount(v) <= 1
          /\ SummaryCount(v) = 1 => Len(Results(v)) = 6
          /\ pc[v] = "done" => SummaryCount(v) = 1)
  /\ <>(\A v \in active : pc[v] = "done")

\* A run in which all six steps failed and which sent the summary request.
C2_Witness ==
  \E v \in active :
    /\ pc[v] = "done"
    /\ Len(Results(v)) = 6
    /\ \A i \in 1..6 : Results(v)[i].status = "LR_FAIL"
    /\ SummaryCount(v) = 1
    /\ LatestRequest(v).name = "Journey_Summary"

\* C3: a step whose request failed at transport level is marked failed, and
\* with error simulation disabled a step is marked passed exactly when its
\* request succeeded.
C3_ResultReflectsTransport ==
  \A v \in active :
    (Returned(v) /\ last_rc[v] # << >>) =>
       /\ last_rc[v][1] = "LR_FAIL" => LastResult(v).status = "LR_FAIL"
       /\ error_simulation = 0 =>
            (LastResult(v).status = "LR_PASS" <=> last_rc[v][1] = "LR_PASS")

\* C4: every request carries a correlation header, and every correlation
\* value it carries is built from the sender's Vuser id, session id, LSN and
\* LTN and names the step that issues the request (Journey_Complete for the
\* summary request).
C4_CorrelationNamesIssuingStep ==
  \A v \in active :
    requests[v] # << >> =>
       HeaderValues(v, "X-dynaTrace") =
         {FormatDtHeader(lr_get_vuser_id(v), lr_get_session_id(v), LatestTsn(v))}

\* C5: every step request carries the company header.
C5_CompanyHeaderOnEveryStep ==
  \A v \in active :
    (requests[v] # << >> /\ LatestRequest(v).name # "Journey_Summary") =>
       company_name \in HeaderValues(v, "X-LoadRunner-Company")

\* C6: every step request is a POST to the base URL followed by the step's
\* relative path, with the step's body; the summary request is a POST to the
\* base URL followed by /api/journey-complete with the JSON built into
\* request_body.
C6_RequestUrlAndBody ==
  \A v \in active :
    \A i \in DOMAIN requests[v] :
      /\ requests[v][i].method = "POST"
      /\ IF requests[v][i].name = "Journey_Summary"
         THEN /\ requests[v][i].url = base_url \o "/api/journey-complete"
              /\ requests[v][i].body =
                   FormatSummaryBody(lr_get_vuser_id(v), lr_get_session_id(v))
         ELSE /\ requests[v][i].url = base_url \o Steps[i].endpoint
              /\ requests[v][i].body = Steps[i].body

\* C7: the amount handed to lr_think_time for a step is the step's duration
\* in seconds (13, 8, 19, 12, 21, 8), so a run has waited 81 seconds in all.
C7_ThinkTimeIsDuration ==
  \A v \in active :
    /\ \A i \in DOMAIN think_log[v] : think_log[v][i] = Steps[i].duration
    /\ pc[v] = "done" => SumSeq(think_log[v]) = 81

C9_InjectionExactlyBelowFive ==
  \A v \in active :
    /\ Returned(v) =>
         (LastResult(v).status = "LR_FAIL"
            <=> /\ error_simulation # 0
                /\ rand_value[v] # << >>
                /\ rand_value[v][1] % 100 < 5)
    /\ Returned(v) /\ error_simulation # 0 => rand_value[v] # << >>
    /\ error_simulation = 0 =>
         \A i \in DOMAIN Results(v) : Results(v)[i].status = "LR_PASS"

\* A step marked failed on a draw of 104 although its request succeeded.
C9_Witness ==
  \E v \in active :
    /\ Returned(v)
    /\ LastResult(v).status = "LR_FAIL"
    /\ rand_value[v] = << 104 >>
    /\ last_rc[v] = << "LR_PASS" >>

\* C10: at most one transaction is open at any time, every end names the
\* transaction that is open, on the pass path and on the simulated-failure
\* path, the names started in a run are pairwise distinct, and a run that
\* returned from Action has started and ended its eight transactions.
C10_TransactionsBalanced ==
  \A v \in active :
    LET ev == TxEvents(v)
    IN  /\ Cardinality(tx_open[v]) <= 1
        /\ \A i \in DOMAIN ev :
             /\ ev[i].op = (IF i % 2 = 1 THEN "start" ELSE "end")
             /\ i % 2 = 0 => ev[i].name = ev[i - 1].name
        /\ \A i, j \in DOMAIN ev :
             (i < j /\ ev[i].op = "start" /\ ev[j].op = "start")
               => ev[i].name # ev[j].name
        /\ tx_open[v] = (IF Len(ev) % 2 = 1 THEN {ev[Len(ev)].name} ELSE {})
        /\ pc[v] = "done" => (tx_open[v] = {} /\ Len(ev) = 16)

\* A run that returned from Action with a step ended LR_FAIL and a step
\* ended LR_PASS.
C10_Witness ==
  \E v \in active :
    /\ pc[v] = "done"
    /\ \E i, j \in DOMAIN tx_log[v] :
         /\ tx_log[v][i].op = "end" /\ tx_log[v][i].status = "LR_FAIL"
         /\ tx_log[v][j].op = "end" /\ tx_log[v][j].status = "LR_PASS"
         /\ tx_log[v][j].name = "Step_DeliveryTracking"

=============================================================================
